---- MODULE Spec2Model ----
\* A model of record/storage.py: the abstract Storage class (nine abstract
\* operations) and its one concrete method, the classmethod revision_generate,
\* which computes the changes between two record values.
EXTENDS Integers, Sequences, FiniteSets, TLC

VARIABLES old, new, result, reverse, implemented, instance, called

vars == <<old, new, result, reverse, implemented, instance, called>>

-----------------------------------------------------------------------------
\* Bounds of the value universe.

\* numbers are 0 .. MaxNum
MaxNum == 1
\* lists hold at most MaxLen elements
MaxLen == 2

-----------------------------------------------------------------------------
\* Python values. Every value is a record [kind, val]; a bool carries the
\* integer it is in Python (bool is a subclass of int), a list carries a
\* sequence and a dict a function from its keys (strings) to values. A dict
\* is compared without regard to insertion order, as in Python.

PyNone == [kind |-> "none", val |-> 0]
Bool(b) == [kind |-> "bool", val |-> b]
Num(n) == [kind |-> "num", val |-> n]
Str(s) == [kind |-> "str", val |-> s]
List(s) == [kind |-> "list", val |-> s]
Dict(f) == [kind |-> "dict", val |-> f]

\* An exception leaving a call, by its class name.
Raise(e) == [kind |-> "raise", val |-> e]
IsRaise(v) == v.kind = "raise"

\* No call has been made yet.
Pending == [kind |-> "pending", val |-> 0]

EmptyMap == [k \in {} |-> PyNone]

Keys == {"a", "b"}

Scalars == {PyNone, Bool(1), Str("x")} \cup {Num(n) : n \in 0..MaxNum}

Maps(E) == UNION {[K -> E] : K \in SUBSET Keys}
Seqs(E) == UNION {[1..n -> E] : n \in 0..MaxLen}
Containers(E) == {Dict(f) : f \in Maps(E)} \cup {List(s) : s \in Seqs(E)}

\* elements of the nested containers: empty containers, containers of one
\* element, and a scalar
Inner == {Dict(EmptyMap), List(<<>>), Dict([k \in {"a"} |-> Num(1)]), Num(1)}

Values == Scalars \cup Containers(Scalars) \cup Containers(Inner)

-----------------------------------------------------------------------------
\* isinstance(v, dict), isinstance(v, list)
IsDict(v) == v.kind = "dict"
IsList(v) == v.kind = "list"

\* Python's == on two scalars: None equals None only, bool and number compare
\* as numbers (True == 1), a string equals the same string only.
Numeric(v) == v.kind \in {"bool", "num"}
ScalarEq(a, b) ==
    IF Numeric(a) /\ Numeric(b) THEN a.val = b.val
    ELSE a.kind = b.kind /\ a.val = b.val

\* Python's truth value of what a call returned: None and an empty container
\* are false.
Truthy(v) ==
    CASE v.kind = "none" -> FALSE
      [] v.kind = "dict" -> DOMAIN v.val # {}
      [] v.kind = "list" -> Len(v.val) > 0
      [] v.kind = "str" -> v.val # ""
      [] OTHER -> v.val # 0

\* str(i) for an index i >= 0: its decimal digits
Digits == <<"0", "1", "2", "3", "4", "5", "6", "7", "8", "9">>
RECURSIVE str(_)
str(i) == IF i < 10 THEN Digits[i + 1] ELSE str(i \div 10) \o Digits[(i % 10) + 1]

\* the dict literal { 'old': a, 'new': b }
OldNew(a, b) == Dict([old |-> a, new |-> b])

\* the idiom `c and a or b` on integers
AndOr(c, a, b) == IF c /\ a # 0 THEN a ELSE b

\* The names the class body of Storage binds. The method is a classmethod and
\* is called on Storage itself (or on a backend that adds no helper of its
\* own); the base class define.Tree, an external package, has no attribute
\* generate_changes either.
StorageAttributes ==
    {"add", "create", "count", "exists", "fetch", "install", "remove",
     "revision_add", "revision_generate", "uninstall"}

RECURSIVE revision_generate(_, _)

\* cls.generate_changes(a, b): the attribute is looked up on the class first,
\* and the lookup of a name the class does not have raises AttributeError.
generate_changes(a, b) ==
    IF "generate_changes" \in StorageAttributes
    THEN revision_generate(a, b)
    ELSE Raise("AttributeError")

\* Both are dicts.
DictChanges(o, n) ==
    LET iOldLen == Cardinality(DOMAIN o.val)
        iNewLen == Cardinality(DOMAIN n.val)
        both == DOMAIN o.val \cap DOMAIN n.val
        dTemp == [k \in both |-> generate_changes(o.val[k], n.val[k])]
        lNewKeys == DOMAIN n.val \ DOMAIN o.val
        changed == (DOMAIN o.val \ DOMAIN n.val)
                     \cup {k \in both : Truthy(dTemp[k])} \cup lNewKeys
        dRet == [k \in changed |->
                    IF k \notin DOMAIN n.val THEN OldNew(o.val[k], PyNone)
                    ELSE IF k \in lNewKeys THEN OldNew(PyNone, n.val[k])
                    ELSE dTemp[k]]
        iMaxKeys == AndOr(iOldLen > iNewLen, iOldLen, iNewLen)
    IN  IF \E k \in both : IsRaise(dTemp[k])
        THEN dTemp[CHOOSE k \in both : IsRaise(dTemp[k])]
        ELSE IF Cardinality(DOMAIN dRet) >= iMaxKeys THEN OldNew(o, n)
        ELSE IF Truthy(Dict(dRet)) THEN Dict(dRet)
        ELSE PyNone

\* The dict branch without its test of new: new.keys() is then reached with a
\* value that has no such attribute.
DictBranchUnchecked(o, n) ==
    IF ~IsDict(n) THEN Raise("AttributeError") ELSE DictChanges(o, n)

\* The branch taken when old is a dict.
DictBranch(o, n) ==
    IF ~IsDict(n) THEN OldNew(o, n) ELSE DictChanges(o, n)

\* Both are lists.
ListChanges(o, n) ==
    LET iOldLen == Len(o.val)
        iNewLen == Len(n.val)
        both == {i \in 0..(iOldLen - 1) : i < iNewLen}
        dTemp == [i \in both |-> generate_changes(o.val[i + 1], n.val[i + 1])]
        changed == {i \in 0..(iOldLen - 1) : i >= iNewLen}
                     \cup {i \in both : Truthy(dTemp[i])}
                     \cup (IF iNewLen > iOldLen THEN iOldLen..(iNewLen - 1) ELSE {})
        dRet == [s \in {str(i) : i \in changed} |->
                    LET i == CHOOSE j \in changed : str(j) = s
                    IN  IF i >= iNewLen THEN OldNew(o.val[i + 1], PyNone)
                        ELSE IF i >= iOldLen THEN OldNew(PyNone, n.val[i + 1])
                        ELSE dTemp[i]]
        iMaxKeys == AndOr(iOldLen > iNewLen, iOldLen, iNewLen)
    IN  IF \E i \in both : IsRaise(dTemp[i])
        THEN dTemp[CHOOSE i \in both : IsRaise(dTemp[i])]
        ELSE IF Cardinality(DOMAIN dRet) >= iMaxKeys THEN OldNew(o, n)
        ELSE IF Truthy(Dict(dRet)) THEN Dict(dRet)
        ELSE PyNone

\* The branch taken when old is a list.
ListBranch(o, n) ==
    IF ~IsList(n) THEN OldNew(o, n) ELSE ListChanges(o, n)

\* The branch taken when old is a single value.
ScalarBranch(o, n) ==
    IF IsDict(n) \/ IsList(n) \/ ~ScalarEq(n, o) THEN OldNew(o, n) ELSE PyNone

\* Storage.revision_generate(old, new)
revision_generate(o, n) ==
    IF IsDict(o) THEN DictBranch(o, n)
    ELSE IF IsList(o) THEN ListBranch(o, n)
    ELSE ScalarBranch(o, n)

-----------------------------------------------------------------------------
\* The diff engine as a state machine: a pair of values is chosen, then the
\* method is called on the pair and on the swapped pair.

Init ==
    /\ old \in Values
    /\ new \in Values
    /\ result = Pending
    /\ reverse = Pending
    /\ implemented = {}
    /\ instance = "unbound"
    /\ called = "none"

\* result = Storage.revision_generate(old, new)
Generate ==
    /\ result = Pending
    /\ result' = revision_generate(old, new)
    /\ UNCHANGED <<old, new, reverse, implemented, instance, called>>

\* reverse = Storage.revision_generate(new, old)
GenerateReverse ==
    /\ reverse = Pending
    /\ reverse' = revision_generate(new, old)
    /\ UNCHANGED <<old, new, result, implemented, instance, called>>

Next == Generate \/ GenerateReverse

Spec == Init /\ [][Next]_vars

-----------------------------------------------------------------------------
\* The abstract class. Storage derives from abc.ABC and decorates nine of its
\* methods with @abc.abstractmethod; a subclass binds some set of names
\* (implemented), and the class is then instantiated.

\* the operations a backend may bind and a caller may call
Operations ==
    {"add", "create", "count", "exists", "fetch", "install", "remove",
     "revision_add", "uninstall"}

\* the abstract names with the decorator of the last method left out
AbstractMethodsNoUninstall ==
    {"add", "create", "count", "exists", "fetch", "install", "remove",
     "revision_add"}

\* the names decorated with @abc.abstractmethod
AbstractMethods ==
    {"add", "create", "count", "exists", "fetch", "install", "remove",
     "revision_add", "uninstall"}

\* __abstractmethods__ of a subclass binding the names impl: the abstract
\* names of the base that the subclass does not override
abstractmethods(impl) == AbstractMethods \ impl

InitClass ==
    /\ old = PyNone
    /\ new = PyNone
    /\ result = Pending
    /\ reverse = Pending
    /\ implemented \in SUBSET Operations
    /\ instance = "unbound"
    /\ called = "none"

\* Calling the class: a class with abstract methods left raises TypeError
Instantiate ==
    /\ instance = "unbound"
    /\ instance' = IF abstractmethods(implemented) = {}
                   THEN "constructed" ELSE "TypeError"
    /\ UNCHANGED <<old, new, result, reverse, implemented, called>>

\* An operation is called on the instance
Call(op) ==
    /\ instance = "constructed"
    /\ called' = op
    /\ UNCHANGED <<old, new, result, reverse, implemented, instance>>

NextClass == Instantiate \/ \E op \in Operations : Call(op)

SpecClass == InitClass /\ [][NextClass]_vars

-----------------------------------------------------------------------------
\* Notions the properties are stated with.

\* the call returned, and returned None or a mapping
Returned(v) == v = PyNone \/ IsDict(v)

\* Deep equality of two values: scalars by value, lists position by position,
\* mappings key by key without regard to order.
RECURSIVE DeepEqual(_, _)
DeepEqual(a, b) ==
    IF IsDict(a) /\ IsDict(b)
    THEN /\ DOMAIN a.val = DOMAIN b.val
         /\ \A k \in DOMAIN a.val : DeepEqual(a.val[k], b.val[k])
    ELSE IF IsList(a) /\ IsList(b)
    THEN /\ Len(a.val) = Len(b.val)
         /\ \A i \in 1..Len(a.val) : DeepEqual(a.val[i], b.val[i])
    ELSE IF IsDict(a) \/ IsDict(b) \/ IsList(a) \/ IsList(b) THEN FALSE
    ELSE ScalarEq(a, b)

SameContainer(a, b) == (IsDict(a) /\ IsDict(b)) \/ (IsList(a) /\ IsList(b))

\* scalar, dict or list
Shape(v) == IF IsDict(v) THEN "dict" ELSE IF IsList(v) THEN "list" ELSE "scalar"

Max(a, b) == IF a > b THEN a ELSE b

\* the number of top-level keys (indices) of a container
Size(v) == IF IsDict(v) THEN Cardinality(DOMAIN v.val) ELSE Len(v.val)

\* the top-level keys of two mappings whose values differ
DifferingKeys(a, b) ==
    {k \in DOMAIN a.val \cup DOMAIN b.val :
        \/ k \notin DOMAIN a.val
        \/ k \notin DOMAIN b.val
        \/ ~DeepEqual(a.val[k], b.val[k])}

\* the top-level indices (from 0) of two lists whose elements differ
DifferingIndices(a, b) ==
    {i \in 0..(Max(Len(a.val), Len(b.val)) - 1) :
        \/ i >= Len(a.val)
        \/ i >= Len(b.val)
        \/ ~DeepEqual(a.val[i + 1], b.val[i + 1])}

DifferCount(a, b) ==
    IF IsDict(a) THEN Cardinality(DifferingKeys(a, b))
    ELSE Cardinality(DifferingIndices(a, b))

\* a terminal pair {'old': ..., 'new': ...}
IsTerminal(v) == IsDict(v) /\ DOMAIN v.val = {"old", "new"}

\* a result with 'old' and 'new' exchanged at every terminal pair
RECURSIVE Swapped(_)
Swapped(v) ==
    IF IsTerminal(v) THEN OldNew(v.val["new"], v.val["old"])
    ELSE IF IsDict(v) THEN Dict([k \in DOMAIN v.val |-> Swapped(v.val[k])])
    ELSE v

-----------------------------------------------------------------------------
\* C1: revision_generate(old, new) never fails: for every pair of values the
\* call completes and returns None or a mapping, never an error.
C1_NeverFails == result # Pending => Returned(result)

\* C2: reflexivity: revision_generate(x, x) returns None for every value x,
\* the empty mapping and the empty list included.
C2_Reflexive == (result # Pending /\ old = new) => result = PyNone

\* C3: collapse law: for two mappings or two lists of which at least
\* max(|old|, |new|) top-level keys (indices) differ, the result is exactly
\* {'old': old, 'new': new}.
C3_Collapse ==
    (/\ result # Pending
     /\ SameContainer(old, new)
     /\ DifferCount(old, new) >= Max(Size(old), Size(new)))
    => result = OldNew(old, new)

\* C4: itemized mapping diff: for two mappings of which some but fewer than
\* max(|old|, |new|) keys differ, the result is a mapping whose keys are
\* exactly the differing keys; a key only in old maps to {old[k], None}, a key
\* only in new to {None, new[k]}, a key in both to
\* revision_generate(old[k], new[k]).
C4_ItemizedMapping ==
    (/\ result # Pending
     /\ IsDict(old) /\ IsDict(new)
     /\ DifferCount(old, new) > 0
     /\ DifferCount(old, new) < Max(Size(old), Size(new)))
    => /\ IsDict(result)
       /\ DOMAIN result.val = DifferingKeys(old, new)
       /\ \A k \in DifferingKeys(old, new) :
            result.val[k] =
                IF k \notin DOMAIN new.val THEN OldNew(old.val[k], PyNone)
                ELSE IF k \notin DOMAIN old.val THEN OldNew(PyNone, new.val[k])
                ELSE revision_generate(old.val[k], new.val[k])

\* C5: positional list diff: for two lists of which some but fewer than
\* max(len(old), len(new)) positions differ, the result is a mapping keyed by
\* the decimal string of each differing index; an index past the end of new
\* maps to {old[i], None}, an index past the end of old to {None, new[i]}, an
\* index on both sides to revision_generate(old[i], new[i]).
C5_PositionalList ==
    (/\ result # Pending
     /\ IsList(old) /\ IsList(new)
     /\ DifferCount(old, new) > 0
     /\ DifferCount(old, new) < Max(Size(old), Size(new)))
    => /\ IsDict(result)
       /\ DOMAIN result.val = {str(i) : i \in DifferingIndices(old, new)}
       /\ \A i \in DifferingIndices(old, new) :
            result.val[str(i)] =
                IF i >= Len(new.val) THEN OldNew(old.val[i + 1], PyNone)
                ELSE IF i >= Len(old.val) THEN OldNew(PyNone, new.val[i + 1])
                ELSE revision_generate(old.val[i + 1], new.val[i + 1])

\* C6: type-mismatch law: when old and new are of different shapes (scalar,
\* mapping, list), in either order, the result is exactly
\* {'old': old, 'new': new}.
C6_TypeMismatch ==
    /\ (result # Pending /\ Shape(old) # Shape(new))
         => result = OldNew(old, new)
    /\ (reverse # Pending /\ Shape(old) # Shape(new))
         => reverse = OldNew(new, old)

\* C6 witness: a scalar against a mapping and a mapping against a list have
\* been compared, each giving the terminal pair.
C6_Witness ==
    /\ Shape(old) = "dict" /\ Shape(new) = "list"
    /\ DOMAIN old.val # {} /\ Len(new.val) > 0
    /\ result = OldNew(old, new)
    /\ reverse = OldNew(new, old)

\* C7: completeness: for every pair of values that are not deep-equal the call
\* returns a result, and the result is not None.
C7_Complete ==
    (result # Pending /\ ~DeepEqual(old, new))
    => (Returned(result) /\ result # PyNone)

\* C8: asymmetry: revision_generate(new, old) is revision_generate(old, new)
\* with 'old' and 'new' exchanged at every terminal pair.
C8_Asymmetry ==
    (result # Pending /\ reverse # Pending)
    => /\ Returned(result)
       /\ Returned(reverse)
       /\ reverse = Swapped(result)

\* C9: a subclass that leaves any of the nine required operations
\* unimplemented is rejected when it is instantiated, before any operation can
\* be called on it; a subclass implementing all nine is instantiated.
C9_FailFast ==
    /\ instance = "constructed" => Operations \subseteq implemented
    /\ instance = "TypeError" => ~(Operations \subseteq implemented)
    /\ called # "none" => Operations \subseteq implemented

\* C9 witness: a subclass leaving exactly one operation out was rejected.
C9_Witness ==
    /\ instance = "TypeError"
    /\ Cardinality(Operations \ implemented) = 1

====
